---- MODULE Spec2Model ----
(***************************************************************************)
(* A model of the byte-pair-encoding tokenizer of src/src/main.rs.         *)
(*                                                                         *)
(* A character is a one-character string, a token string (Rust String) is  *)
(* a sequence of characters, a text is a sequence of characters.  A        *)
(* HashMap is a function whose DOMAIN is its key set; HashMap::insert is    *)
(* Put.  The space marker U+0120 is written "G".  The ASCII range          *)
(* 0..128 of train is scaled down to the seven characters of Ascii.        *)
(*                                                                         *)
(* Iteration over a HashSet or a HashMap visits the entries in an order    *)
(* the program does not control (std's RandomState).  Wherever the code's  *)
(* result depends on that order the model chooses the order with \E.       *)
(***************************************************************************)
EXTENDS Integers, Sequences, FiniteSets, TLC

VARIABLES
    vocab,           \* HashMap<usize, String>
    inverse_vocab,   \* HashMap<String, usize>
    bpe_merges,      \* HashMap<(usize, usize), usize>
    bpe_ranks,       \* HashMap<(String, String), usize>
    special_tokens,  \* HashSet<String>
    pc,              \* "idle", "merge" while train is in its merge loop, or "panicked"
    token_ids,       \* train: the local token_ids
    next_id,         \* train: the local next_id
    vocab_size,      \* train: the argument vocab_size
    train_text,      \* train: the argument text
    seed_size,       \* history: vocab.len() when train's merge loop was entered
    learned,         \* history: the merges of the running/last train, in learning order
    calls,           \* history: the calls completed on this tokenizer since new()
    vocab_file,      \* the native vocabulary file, <<>> before the first save
    merges_file,     \* the native merges file
    saved,           \* history: the tokenizer that wrote the two files
    first_run,       \* history: the outcome of an earlier train on a fresh tokenizer
    rank_text,       \* history: the contents of the rank file read last
    enc_text,        \* the text of the last encode
    enc_allowed,     \* the allowed_special of the last encode
    enc_result,      \* the io::Result of the last encode
    dec_result       \* the io::Result of decoding enc_result

vars == <<vocab, inverse_vocab, bpe_merges, bpe_ranks, special_tokens, pc,
          token_ids, next_id, vocab_size, train_text, seed_size, learned, calls,
          vocab_file, merges_file, saved, first_run, rank_text,
          enc_text, enc_allowed, enc_result, dec_result>>

tokenizer == <<vocab, inverse_vocab, bpe_merges, bpe_ranks, special_tokens>>
trainer == <<pc, token_ids, next_id, vocab_size, train_text, seed_size, learned>>
files == <<vocab_file, merges_file, saved>>
coder == <<enc_text, enc_allowed, enc_result, dec_result>>
history == <<first_run, rank_text>>

----------------------------------------------------------------------------
(* Bounds of the model. *)

\* How many of the iteration orders of HashSet<char> the model explores.
MaxOrders == 2
\* The largest vocab_size passed to train.
MaxVocabSize == 11
\* How many calls of train / load / save are made on one tokenizer.
MaxCalls == 2

----------------------------------------------------------------------------
(* Characters and strings. *)

SpaceMarker == "G"
Newline == "\n"
Ascii == {"\n", " ", "<", ">", "a", "b", "|"}
\* char::is_whitespace, on the characters of the model
Whitespace == {"\n", " "}
\* The characters in code-point order.
CodePoints == <<"\n", " ", "<", ">", "a", "b", "|", "G">>

\* "<|endoftext|>"
EndOfText == <<"<", "|", "e", "n", "d", "o", "f", "t", "e", "x", "t", "|", ">">>

EmptyMap == << >>
Put(m, k, v) == [x \in (DOMAIN m) \cup {k} |-> IF x = k THEN v ELSE m[x]]
Range(s) == {s[i] : i \in DOMAIN s}
Tail2(s) == SubSeq(s, 3, Len(s))

\* str::starts_with, str::ends_with
StartsWith(s, p) == Len(s) >= Len(p) /\ SubSeq(s, 1, Len(p)) = p
EndsWith(s, p) == Len(s) >= Len(p) /\ SubSeq(s, Len(s) - Len(p) + 1, Len(s)) = p
\* str::contains: p occurs in s at position i
OccursAt(s, p, i) == i + Len(p) - 1 <= Len(s) /\ SubSeq(s, i, i + Len(p) - 1) = p
Contains(s, p) == \E i \in 1..(Len(s) + 1) : OccursAt(s, p, i)

\* text.replace(" ", marker)
ReplaceSpaces(text) == [i \in DOMAIN text |-> IF text[i] = " " THEN SpaceMarker ELSE text[i]]

\* The sequences that enumerate the set S once each.
Perms(S) == {f \in [1..Cardinality(S) -> S] : \A i, j \in DOMAIN f : f[i] = f[j] => i = j}

RECURSIVE Filter(_, _)
Filter(s, S) ==
    IF s = <<>> THEN <<>>
    ELSE IF Head(s) \in S THEN <<Head(s)>> \o Filter(Tail(s), S) ELSE Filter(Tail(s), S)

Rotate(s, r) == [i \in DOMAIN s |-> s[((i - 1 + r) % Len(s)) + 1]]
\* Iteration orders of a hash table whose entries are base: MaxOrders of them.
Orders(base) == {Rotate(base, r) : r \in {k \in 0..(MaxOrders - 1) : k = 0 \/ k < Len(base)}}
\* Iteration orders of a HashSet<char>, code-point order first.
CharOrders(S) == Orders(Filter(CodePoints, S))
\* Iteration orders of the keys of a HashMap<(usize, usize), _>, ascending order first.
RECURSIVE SortPairs(_)
SortPairs(S) ==
    IF S = {} THEN <<>>
    ELSE LET least == CHOOSE p \in S :
                         \A q \in S : p[1] < q[1] \/ (p[1] = q[1] /\ p[2] <= q[2])
         IN  <<least>> \o SortPairs(S \ {least})
PairOrders(S) == Orders(SortPairs(S))

----------------------------------------------------------------------------
(* train *)

Self == [vocab |-> vocab, inverse_vocab |-> inverse_vocab, bpe_merges |-> bpe_merges,
         bpe_ranks |-> bpe_ranks, special_tokens |-> special_tokens]

\* BPETokenizer::new()
New == [vocab |-> EmptyMap, inverse_vocab |-> EmptyMap, bpe_merges |-> EmptyMap,
        bpe_ranks |-> EmptyMap, special_tokens |-> {}]

\* lines 36-37: the characters of the processed text and the ASCII range
UniqueChars(processed_text) == Range(processed_text) \cup Ascii

\* lines 40-45: one vocabulary entry per character, in iteration order
RECURSIVE SeedChars(_, _, _)
SeedChars(t, order, id) ==
    IF order = <<>> THEN [t |-> t, next_id |-> id]
    ELSE SeedChars([t EXCEPT !.vocab = Put(t.vocab, id, <<Head(order)>>),
                             !.inverse_vocab = Put(t.inverse_vocab, <<Head(order)>>, id)],
                   Tail(order), id + 1)

\* lines 46-50: the space marker, unless it is a key already
SeedMarker(s) ==
    IF <<SpaceMarker>> \in DOMAIN s.t.inverse_vocab THEN s
    ELSE [t |-> [s.t EXCEPT !.vocab = Put(s.t.vocab, s.next_id, <<SpaceMarker>>),
                            !.inverse_vocab = Put(s.t.inverse_vocab, <<SpaceMarker>>, s.next_id)],
          next_id |-> s.next_id + 1]

\* lines 52-58: the special tokens that are no key yet, in iteration order
RECURSIVE SeedSpecials(_, _)
SeedSpecials(s, order) ==
    IF order = <<>> THEN s
    ELSE IF Head(order) \in DOMAIN s.t.inverse_vocab THEN SeedSpecials(s, Tail(order))
    ELSE SeedSpecials(
            [t |-> [s.t EXCEPT !.vocab = Put(s.t.vocab, s.next_id, Head(order)),
                               !.inverse_vocab = Put(s.t.inverse_vocab, Head(order), s.next_id)],
             next_id |-> s.next_id + 1],
            Tail(order))

\* lines 61-71: the processed text as IDs (every character was seeded, so no Err)
CharIds(t, processed_text) == [i \in DOMAIN processed_text |-> t.inverse_vocab[<<processed_text[i]>>]]

\* lines 92-100: the adjacent pairs neither side of which is a special token
EligiblePositions(t, ids) ==
    {i \in 1..(Len(ids) - 1) :
        /\ t.vocab[ids[i]] \notin t.special_tokens
        /\ t.vocab[ids[i + 1]] \notin t.special_tokens}
PairCount(t, ids, pair) ==
    Cardinality({i \in EligiblePositions(t, ids) : <<ids[i], ids[i + 1]>> = pair})

\* lines 101-104: max_by_key over a HashMap: any pair of the highest count can be
\* the one returned; the empty set is None.
find_freq_pair(t, ids) ==
    LET pairs == {<<ids[i], ids[i + 1]>> : i \in EligiblePositions(t, ids)}
    IN  {p \in pairs : \A q \in pairs : PairCount(t, ids, q) <= PairCount(t, ids, p)}

\* lines 107-120
RECURSIVE replace_pair(_, _, _)
replace_pair(ids, pair, new_id) ==
    IF ids = <<>> THEN <<>>
    ELSE IF Len(ids) > 1 /\ ids[1] = pair[1] /\ ids[2] = pair[2]
         THEN <<new_id>> \o replace_pair(Tail2(ids), pair, new_id)
         ELSE <<Head(ids)>> \o replace_pair(Tail(ids), pair, new_id)

\* line 73: the condition of the merge loop
MergeLoopCondOffByOne(v, size, ids) == Cardinality(DOMAIN v) <= size /\ ids # <<>>
MergeLoopCond(v, size, ids) == Cardinality(DOMAIN v) < size /\ ids # <<>>

\* lines 32-71: train up to the merge loop
TrainSeed(text, size, specials, char_order, special_order) ==
    /\ pc = "idle"
    /\ Len(calls) < MaxCalls
    /\ LET processed_text == ReplaceSpaces(text)
           s == SeedSpecials(SeedMarker(SeedChars([Self EXCEPT !.special_tokens = specials],
                                                  char_order, 0)),
                             special_order)
       IN  /\ vocab' = s.t.vocab
           /\ inverse_vocab' = s.t.inverse_vocab
           /\ special_tokens' = specials
           /\ next_id' = s.next_id
           /\ token_ids' = CharIds(s.t, processed_text)
           /\ seed_size' = Cardinality(DOMAIN s.t.vocab)
    /\ vocab_size' = size
    /\ train_text' = text
    /\ learned' = <<>>
    /\ pc' = "merge"
    /\ UNCHANGED <<bpe_merges, bpe_ranks, calls, files, history, coder>>

\* lines 73-86: one turn of the merge loop
TrainMerge ==
    /\ pc = "merge"
    /\ MergeLoopCond(vocab, vocab_size, token_ids)
    /\ \E pair \in find_freq_pair(Self, token_ids) :
          LET new_id == next_id
              merged_token == vocab[pair[1]] \o vocab[pair[2]]
          IN  /\ vocab' = Put(vocab, new_id, merged_token)
              /\ inverse_vocab' = Put(inverse_vocab, merged_token, new_id)
              /\ bpe_merges' = Put(bpe_merges, pair, new_id)
              /\ token_ids' = replace_pair(token_ids, pair, new_id)
              /\ next_id' = next_id + 1
              /\ learned' = Append(learned, <<vocab[pair[1]], vocab[pair[2]]>>)
    /\ UNCHANGED <<bpe_ranks, special_tokens, pc, vocab_size, train_text, seed_size,
                   calls, files, history, coder>>

\* lines 73-77, 88: the loop ends and train returns Ok; its locals are dropped
TrainReturn ==
    /\ pc = "merge"
    /\ \/ ~MergeLoopCond(vocab, vocab_size, token_ids)
       \/ find_freq_pair(Self, token_ids) = {}
    /\ pc' = "idle"
    /\ token_ids' = <<>>
    /\ next_id' = 0
    /\ calls' = Append(calls, "train")
    /\ UNCHANGED <<tokenizer, vocab_size, train_text, seed_size, learned, files,
                   history, coder>>

----------------------------------------------------------------------------
(* encode, encode_no_special, tokenize_with_bpe *)

Ok(ids) == [ok |-> TRUE, ids |-> ids, err |-> ""]
Err(msg) == [ok |-> FALSE, ids |-> <<>>, err |-> msg]
\* Option<&HashSet<String>>: Some carries the set in its iteration order
None == [some |-> FALSE, alts |-> <<>>]
Some(alts) == [some |-> TRUE, alts |-> alts]

\* the first index of s holding a character of S, Len(s) + 1 when there is none
FirstIn(s, S) ==
    IF \E i \in DOMAIN s : s[i] \in S
    THEN CHOOSE i \in DOMAIN s : s[i] \in S /\ \A j \in 1..(i - 1) : s[j] \notin S
    ELSE Len(s) + 1

\* line 186: text.split('\n'); the empty text is one empty line
RECURSIVE SplitLines(_)
SplitLines(text) ==
    LET k == FirstIn(text, {Newline})
    IN  IF k > Len(text) THEN <<text>>
        ELSE <<SubSeq(text, 1, k - 1)>> \o SplitLines(SubSeq(text, k + 1, Len(text)))

\* line 191: line.split_whitespace()
RECURSIVE SplitWhitespace(_)
SplitWhitespace(line) ==
    IF line = <<>> THEN <<>>
    ELSE IF Head(line) \in Whitespace THEN SplitWhitespace(Tail(line))
    ELSE LET k == FirstIn(line, Whitespace)
         IN  <<SubSeq(line, 1, k - 1)>> \o SplitWhitespace(SubSeq(line, k, Len(line)))

\* lines 188-200: the tokens of line i (counted from 1)
LineTokens(i, line) ==
    LET words == SplitWhitespace(line)
    IN  (IF i > 1 THEN <<(<<Newline>>)>> ELSE <<>>)
        \o [j \in DOMAIN words |->
               IF j = 1 /\ i > 1 THEN <<SpaceMarker>> \o words[j]
               ELSE IF j = 1 THEN words[j]
               ELSE <<SpaceMarker>> \o words[j]]

\* lines 185-201
RECURSIVE TokensFrom(_, _)
TokensFrom(lines, i) ==
    IF i > Len(lines) THEN <<>>
    ELSE LineTokens(i, lines[i]) \o TokensFrom(lines, i + 1)
Segments(text) == TokensFrom(SplitLines(text), 1)

\* lines 233-246: one left-to-right pass of the id-pair strategy
RECURSIVE MergePass(_, _)
MergePass(t, ids) ==
    IF Len(ids) < 2 THEN ids
    ELSE IF <<ids[1], ids[2]>> \in DOMAIN t.bpe_merges
         THEN <<t.bpe_merges[<<ids[1], ids[2]>>]>> \o MergePass(t, Tail2(ids))
         ELSE <<ids[1]>> \o MergePass(t, Tail(ids))

\* lines 229-251: passes until one merges nothing or one ID is left
RECURSIVE IdPairMerge(_, _)
IdPairMerge(t, ids) ==
    IF Len(ids) <= 1 THEN ids
    ELSE LET new_tokens == MergePass(t, ids)
         IN  IF Len(new_tokens) = Len(ids) THEN new_tokens ELSE IdPairMerge(t, new_tokens)

\* lines 266-275: the adjacent pair of the lowest rank, <<>> for None
BestPair(t, symbols) ==
    LET ranked == {i \in 1..(Len(symbols) - 1) : <<symbols[i], symbols[i + 1]>> \in DOMAIN t.bpe_ranks}
        rank(i) == t.bpe_ranks[<<symbols[i], symbols[i + 1]>>]
    IN  IF ranked = {} THEN <<>>
        ELSE LET b == CHOOSE i \in ranked :
                         /\ \A j \in ranked : rank(i) <= rank(j)
                         /\ \A j \in ranked : j < i => rank(j) > rank(i)
             IN  <<symbols[b], symbols[b + 1]>>

\* lines 280-290
RECURSIVE MergeSymbols(_, _, _)
MergeSymbols(symbols, first, second) ==
    IF symbols = <<>> THEN <<>>
    ELSE IF Len(symbols) > 1 /\ symbols[1] = first /\ symbols[2] = second
         THEN <<first \o second>> \o MergeSymbols(Tail2(symbols), first, second)
         ELSE <<Head(symbols)>> \o MergeSymbols(Tail(symbols), first, second)

\* lines 257-295: rounds of the rank strategy
RECURSIVE RankMerge(_, _)
RankMerge(t, symbols) ==
    IF Len(symbols) < 2 THEN symbols
    ELSE LET best_pair == BestPair(t, symbols)
         IN  IF best_pair = <<>> THEN symbols
             ELSE LET new_symbols == MergeSymbols(symbols, best_pair[1], best_pair[2])
                  IN  IF Len(new_symbols) = 1 THEN new_symbols ELSE RankMerge(t, new_symbols)

\* lines 214-309
tokenize_with_bpe(t, token) ==
    IF \E i \in DOMAIN token : <<token[i]>> \notin DOMAIN t.inverse_vocab
    THEN Err("Character not in vocab")
    ELSE LET ids == [i \in DOMAIN token |-> t.inverse_vocab[<<token[i]>>]]
         IN  IF DOMAIN t.bpe_ranks = {}
             THEN Ok(IdPairMerge(t, ids))
             ELSE LET symbols == RankMerge(t, [i \in DOMAIN ids |-> t.vocab[ids[i]]])
                  IN  IF \E i \in DOMAIN symbols : symbols[i] \notin DOMAIN t.inverse_vocab
                      THEN Err("Symbol not in vocab")
                      ELSE Ok([i \in DOMAIN symbols |-> t.inverse_vocab[symbols[i]]])

\* lines 203-211: the IDs of the tokens, the first Err returned
RECURSIVE TokenIds(_, _)
TokenIds(t, tokens) ==
    IF tokens = <<>> THEN Ok(<<>>)
    ELSE LET first == IF Head(tokens) \in DOMAIN t.inverse_vocab
                      THEN Ok(<<t.inverse_vocab[Head(tokens)]>>)
                      ELSE tokenize_with_bpe(t, Head(tokens))
         IN  IF ~first.ok THEN first
             ELSE LET rest == TokenIds(t, Tail(tokens))
                  IN  IF ~rest.ok THEN rest ELSE Ok(first.ids \o rest.ids)

\* lines 184-212
encode_no_special(t, text) == TokenIds(t, Segments(text))

\* Regex alternation of the escaped literals alts: the match at position i is the
\* first alternative, in the order of the pattern, that occurs there (0: no match).
MatchAt(text, alts, i) ==
    IF \E k \in DOMAIN alts : OccursAt(text, alts[k], i)
    THEN CHOOSE k \in DOMAIN alts :
            OccursAt(text, alts[k], i) /\ \A j \in 1..(k - 1) : ~OccursAt(text, alts[j], i)
    ELSE 0

\* line 143: re.find_iter(text) from position i: non-overlapping matches, leftmost first
RECURSIVE FindIter(_, _, _)
FindIter(text, alts, i) ==
    IF i > Len(text) THEN <<>>
    ELSE LET k == MatchAt(text, alts, i)
         IN  IF k = 0 THEN FindIter(text, alts, i + 1)
             ELSE <<[start |-> i, end |-> i + Len(alts[k]), str |-> alts[k]]>>
                  \o FindIter(text, alts, i + Len(alts[k]))

\* lines 160-169
DisallowedNoCheck(t, text, allowed) == {}
Disallowed(t, text, allowed) ==
    {k \in DOMAIN t.inverse_vocab :
        /\ StartsWith(k, <<"<", "|">>)
        /\ EndsWith(k, <<"|", ">">>)
        /\ k \notin allowed
        /\ Contains(text, k)}

\* lines 143-158: the prefixes and the matches in turn, then the remaining text
RECURSIVE EncodeMatches(_, _, _, _)
EncodeMatches(t, text, matches, last_index) ==
    IF matches = <<>> THEN encode_no_special(t, SubSeq(text, last_index, Len(text)))
    ELSE LET mat == Head(matches)
             prefix == encode_no_special(t, SubSeq(text, last_index, mat.start - 1))
         IN  IF ~prefix.ok THEN prefix
             ELSE IF mat.str \notin DOMAIN t.inverse_vocab
             THEN Err("Special token not found in vocabulary")
             ELSE LET rest == EncodeMatches(t, text, Tail(matches), mat.end)
                  IN  IF ~rest.ok THEN rest
                      ELSE Ok(prefix.ids \o <<t.inverse_vocab[mat.str]>> \o rest.ids)

\* lines 122-182
EncodeIgnoringSpecial(t, text, allowed_special) == encode_no_special(t, text)
encode(t, text, allowed_special) ==
    IF allowed_special.some /\ allowed_special.alts # <<>>
    THEN LET alts == allowed_special.alts
             r == EncodeMatches(t, text, FindIter(text, alts, 1), 1)
         IN  IF ~r.ok THEN r
             ELSE IF Disallowed(t, text, Range(alts)) # {}
             THEN Err("Disallowed special tokens encountered")
             ELSE r
    ELSE encode_no_special(t, text)

----------------------------------------------------------------------------
(* decode *)

DecOk(text) == [ok |-> TRUE, text |-> text, err |-> ""]
DecErr(msg) == [ok |-> FALSE, text |-> <<>>, err |-> msg]

\* lines 320-332: what one token appends to decoded
DecodeTokenNoSpace(decoded, token) ==
    IF token = <<Newline>>
    THEN decoded \o (IF decoded # <<>> /\ decoded[Len(decoded)] # " " THEN <<" ">> ELSE <<>>)
                 \o <<Newline>>
    ELSE IF StartsWith(token, <<SpaceMarker>>) THEN decoded \o Tail(token)
    ELSE decoded \o token
DecodeToken(decoded, token) ==
    IF token = <<Newline>>
    THEN decoded \o (IF decoded # <<>> /\ decoded[Len(decoded)] # " " THEN <<" ">> ELSE <<>>)
                 \o <<Newline>>
    ELSE IF StartsWith(token, <<SpaceMarker>>) THEN decoded \o <<" ">> \o Tail(token)
    ELSE decoded \o token

\* lines 311-335
RECURSIVE DecodeFrom(_, _, _)
DecodeFrom(t, ids, decoded) ==
    IF ids = <<>> THEN DecOk(decoded)
    ELSE IF Head(ids) \notin DOMAIN t.vocab THEN DecErr("Token ID not in vocab")
    ELSE DecodeFrom(t, Tail(ids), DecodeToken(decoded, t.vocab[Head(ids)]))
decode(t, ids) == DecodeFrom(t, ids, <<>>)

----------------------------------------------------------------------------
(* save_vocab_and_merges, load_vocab_and_merges *)

Digits == <<"0", "1", "2", "3", "4", "5", "6", "7", "8", "9">>
\* serde_json writes the usize key of a map as its decimal digits
RECURSIVE ToDecimal(_)
ToDecimal(n) == IF n < 10 THEN <<Digits[n + 1]>> ELSE ToDecimal(n \div 10) \o <<Digits[(n % 10) + 1]>>
DigitValue(d) == (CHOOSE i \in DOMAIN Digits : Digits[i] = d) - 1
RECURSIVE FromDecimal(_)
FromDecimal(s) ==
    IF Len(s) = 1 THEN DigitValue(s[1])
    ELSE 10 * FromDecimal(SubSeq(s, 1, Len(s) - 1)) + DigitValue(s[Len(s)])

\* serde_json writes a line feed inside a string as backslash n, and reads it back
RECURSIVE JsonEscape(_)
JsonEscape(s) ==
    IF s = <<>> THEN <<>>
    ELSE (IF Head(s) = Newline THEN <<"\\", "n">> ELSE <<Head(s)>>) \o JsonEscape(Tail(s))
RECURSIVE JsonUnescape(_)
JsonUnescape(s) ==
    IF s = <<>> THEN <<>>
    ELSE IF Len(s) > 1 /\ s[1] = "\\" /\ s[2] = "n" THEN <<Newline>> \o JsonUnescape(Tail2(s))
    ELSE <<Head(s)>> \o JsonUnescape(Tail(s))

\* The maps a collect() of the inverted entries of m can build: where two keys of m
\* hold the same value, the entry inserted last wins, and the order is the HashMap's.
RECURSIVE InversionsOver(_, _)
InversionsOver(m, values) ==
    IF values = {} THEN {EmptyMap}
    ELSE LET y == CHOOSE v \in values : TRUE
         IN  {Put(f, y, k) : f \in InversionsOver(m, values \ {y}),
                             k \in {x \in DOMAIN m : m[x] = y}}
Inversions(m) == InversionsOver(m, {m[k] : k \in DOMAIN m})

\* line 339: the vocabulary as a JSON object
VocabJson(v) ==
    LET keys == {ToDecimal(k) : k \in DOMAIN v}
    IN  [key \in keys |-> JsonEscape(v[FromDecimal(key)])]
\* lines 341-352: one record per merge, in the iteration order of bpe_merges
MergesJson(t, order) ==
    [i \in DOMAIN order |->
        [pair |-> <<JsonEscape(t.vocab[order[i][1]]), JsonEscape(t.vocab[order[i][2]]),
                    t.bpe_merges[order[i]]>>]]

\* line 363
VocabFromJson(json) ==
    LET ids == {FromDecimal(key) : key \in DOMAIN json}
    IN  [id \in ids |-> JsonUnescape(json[ToDecimal(id)])]

\* lines 369-375: the id-pair table, rebuilt from the records in file order
RECURSIVE MergesFromJson(_, _, _)
MergesFromJson(inv, merges_list, merges) ==
    IF merges_list = <<>> THEN merges
    ELSE LET merge == Head(merges_list).pair
             p0_id == inv[JsonUnescape(merge[1])]
             p1_id == inv[JsonUnescape(merge[2])]
         IN  MergesFromJson(inv, Tail(merges_list), Put(merges, <<p0_id, p1_id>>, merge[3]))

\* line 348: self.vocab[p0] and self.vocab[p1] panic on an ID that is no key of vocab
SaveIndexable(t) ==
    \A pair \in DOMAIN t.bpe_merges : pair[1] \in DOMAIN t.vocab /\ pair[2] \in DOMAIN t.vocab

\* lines 337-355; the files are written once
save_vocab_and_merges ==
    /\ pc = "idle"
    /\ calls # <<>>
    /\ ~saved.written
    /\ SaveIndexable(Self)
    /\ vocab_file' = VocabJson(vocab)
    /\ \E order \in PairOrders(DOMAIN bpe_merges) : merges_file' = MergesJson(Self, order)
    /\ saved' = [written |-> TRUE, t |-> Self, calls |-> calls]
    /\ UNCHANGED <<tokenizer, trainer, calls, history, coder>>

\* lines 338-348: the vocabulary file is written, then the merges of a tokenizer
\* whose vocabulary was replaced since they were learned make the index panic
SavePanic ==
    /\ pc = "idle"
    /\ calls # <<>>
    /\ ~saved.written
    /\ ~SaveIndexable(Self)
    /\ vocab_file' = VocabJson(vocab)
    /\ pc' = "panicked"
    /\ UNCHANGED <<tokenizer, token_ids, next_id, vocab_size, train_text, seed_size,
                   learned, calls, merges_file, saved, history, coder>>

\* lines 357-377
load_vocab_and_merges ==
    /\ pc = "idle"
    /\ Len(calls) < MaxCalls
    /\ saved.written
    /\ LET v == VocabFromJson(vocab_file)
       IN  /\ vocab' = v
           /\ \E inv \in Inversions(v) :
                 /\ inverse_vocab' = inv
                 /\ bpe_merges' = MergesFromJson(inv, merges_file, EmptyMap)
    /\ calls' = Append(calls, "load")
    /\ UNCHANGED <<bpe_ranks, special_tokens, trainer, files, history, coder>>

\* line 452: after the save the program goes on with a tokenizer made by new()
NewCall ==
    /\ pc = "idle"
    /\ calls # <<>>
    /\ saved.written
    /\ saved.t = Self
    /\ vocab' = New.vocab
    /\ inverse_vocab' = New.inverse_vocab
    /\ bpe_merges' = New.bpe_merges
    /\ bpe_ranks' = New.bpe_ranks
    /\ special_tokens' = New.special_tokens
    /\ calls' = <<>>
    /\ UNCHANGED <<trainer, files, history, coder>>

----------------------------------------------------------------------------
(* load_vocab_and_merges_from_openai *)

\* str::lines: the lines of the contents, a final line feed closing the last line
Lines(contents) ==
    LET pieces == SplitLines(contents)
    IN  IF pieces[Len(pieces)] = <<>> THEN SubSeq(pieces, 1, Len(pieces) - 1) ELSE pieces

\* lines 389-402: a "\n" entry for a vocabulary without one; ok = FALSE is the Err
WithNewline(t) ==
    IF <<Newline>> \in DOMAIN t.inverse_vocab THEN [ok |-> TRUE, t |-> t]
    ELSE IF EndOfText \in DOMAIN t.inverse_vocab
    THEN [ok |-> TRUE,
          t |-> [t EXCEPT !.vocab = Put(t.vocab, t.inverse_vocab[EndOfText], <<Newline>>),
                          !.inverse_vocab = Put(t.inverse_vocab, <<Newline>>, t.inverse_vocab[EndOfText])]]
    ELSE IF <<SpaceMarker>> \in DOMAIN t.inverse_vocab
    THEN [ok |-> TRUE,
          t |-> [t EXCEPT !.vocab = Put(t.vocab, t.inverse_vocab[<<SpaceMarker>>], <<Newline>>),
                          !.inverse_vocab = Put(t.inverse_vocab, <<Newline>>, t.inverse_vocab[<<SpaceMarker>>])]]
    ELSE [ok |-> FALSE, t |-> t]

\* lines 408-419: lines is the file after its header; rank counts the lines from 0
RECURSIVE RanksFrom(_, _, _, _)
RanksFrom(inv, lines, rank, ranks) ==
    IF lines = <<>> THEN ranks
    ELSE LET parts == SplitWhitespace(Head(lines))
         IN  IF Len(parts) = 2 /\ parts[1] \in DOMAIN inv /\ parts[2] \in DOMAIN inv
             THEN RanksFrom(inv, Tail(lines), rank + 1, Put(ranks, <<parts[1], parts[2]>>, rank))
             ELSE RanksFrom(inv, Tail(lines), rank + 1, ranks)

\* lines 407-408
ParseRanks(inv, contents) ==
    LET lines == Lines(contents)
    IN  IF lines = <<>> THEN EmptyMap ELSE RanksFrom(inv, Tail(lines), 0, EmptyMap)

\* lines 379-421, the call that returns Ok
LoadOpenAIOk(loaded_vocab, contents) ==
    /\ pc = "idle"
    /\ Len(calls) < MaxCalls
    /\ \E v \in Inversions(loaded_vocab) :
          LET r == WithNewline([Self EXCEPT !.vocab = v, !.inverse_vocab = loaded_vocab])
          IN  /\ r.ok
              /\ vocab' = r.t.vocab
              /\ inverse_vocab' = r.t.inverse_vocab
              /\ bpe_ranks' = ParseRanks(r.t.inverse_vocab, contents)
    /\ rank_text' = contents
    /\ calls' = Append(calls, "load_openai")
    /\ UNCHANGED <<bpe_merges, special_tokens, trainer, files, first_run, coder>>

\* lines 379-401, the call that returns Err: the vocabulary has no newline stand-in
LoadOpenAIErr(loaded_vocab) ==
    /\ pc = "idle"
    /\ Len(calls) < MaxCalls
    /\ \E v \in Inversions(loaded_vocab) :
          LET r == WithNewline([Self EXCEPT !.vocab = v, !.inverse_vocab = loaded_vocab])
          IN  /\ ~r.ok
              /\ vocab' = r.t.vocab
              /\ inverse_vocab' = r.t.inverse_vocab
    /\ calls' = Append(calls, "load_openai_err")
    /\ UNCHANGED <<bpe_merges, bpe_ranks, special_tokens, trainer, files, history, coder>>

----------------------------------------------------------------------------
(* The calls of encode and decode. *)

NoResult == Err("no call")
NoText == DecErr("no call")

\* one encode on each tokenizer: encode takes &self and changes nothing
EncodeCall(text, allowed_special) ==
    /\ pc = "idle"
    /\ calls # <<>>
    /\ enc_result = NoResult
    /\ enc_text' = text
    /\ enc_allowed' = allowed_special
    /\ enc_result' = encode(Self, text, allowed_special)
    /\ dec_result' = NoText
    /\ UNCHANGED <<tokenizer, trainer, calls, files, history>>

DecodeCall ==
    /\ pc = "idle"
    /\ enc_result.ok
    /\ dec_result = NoText
    /\ dec_result' = decode(Self, enc_result.ids)
    /\ UNCHANGED <<tokenizer, trainer, calls, files, history, enc_text, enc_allowed, enc_result>>

----------------------------------------------------------------------------
(* The inputs. *)

A == <<"a">>
B == <<"b">>
AB == <<"a", "b">>
Marker == <<SpaceMarker>>
\* a special token of the <|...|> spelling, and one of another spelling
Sep == <<"<", "|", ">">>

TrainTexts ==
    { <<>>,
      <<"a">>,
      <<"a", "b", "a", "b">>,
      <<"a", "b", " ", "b", "a">>,
      <<"<", "|", ">", "a", "<", "|", ">">> }
VocabSizes == {3, 9, MaxVocabSize}
SpecialSets == { {}, {Sep}, {AB}, {Sep, AB} }

EncodeTexts ==
    { <<>>,
      <<"a", "b">>,
      <<"b", "a", "b">>,
      <<"a", " ", "b">>,
      <<"a", "b", " ", "a", "b">>,
      <<"a", " ", " ", "b">>,
      <<"a", "\n", "b">>,
      <<"a", "G", "b">>,
      <<"<", "|", ">">>,
      <<"a", "<", "|", ">">>,
      <<"a", "b", " ", "<", "|", ">", " ", "b">>,
      <<"b", "a", "b", "<", "|", ">">> }
AllowedSpecials ==
    {None} \cup {Some(alts) : alts \in UNION {Perms(S) : S \in SpecialSets}}

OpenAIVocabs ==
    { (A :> 0) @@ (B :> 1) @@ (Marker :> 2) @@ (AB :> 3) @@ (<<Newline>> :> 4),
      (A :> 0) @@ (B :> 1) @@ (Marker :> 2) @@ (AB :> 3) @@ (EndOfText :> 4),
      (A :> 0) @@ (B :> 1) @@ (Marker :> 2) @@ (AB :> 3),
      (A :> 0) @@ (B :> 1) }
RankFiles ==
    { <<"#", "\n", "a", " ", "b">>,
      <<"#", "\n", "b", " ", "a", "\n", "a", " ", "b", "\n">>,
      <<"#", "\n", "a", " ", "b", "\n", "G", " ", "a", "\n", "a", " ", "b">>,
      <<"#", "\n", "a", " ", "b", " ", "b", "\n", "G", " ", "b">> }

----------------------------------------------------------------------------
(* The specifications. *)

NoRun == [done |-> FALSE, vocab |-> EmptyMap, inverse_vocab |-> EmptyMap, learned |-> <<>>]
NoFiles == [written |-> FALSE, t |-> New, calls |-> <<>>]

Init ==
    /\ vocab = New.vocab
    /\ inverse_vocab = New.inverse_vocab
    /\ bpe_merges = New.bpe_merges
    /\ bpe_ranks = New.bpe_ranks
    /\ special_tokens = New.special_tokens
    /\ pc = "idle"
    /\ token_ids = <<>>
    /\ next_id = 0
    /\ vocab_size = 0
    /\ train_text = <<>>
    /\ seed_size = 0
    /\ learned = <<>>
    /\ calls = <<>>
    /\ vocab_file = EmptyMap
    /\ merges_file = <<>>
    /\ saved = NoFiles
    /\ first_run = NoRun
    /\ rank_text = <<>>
    /\ enc_text = <<>>
    /\ enc_allowed = None
    /\ enc_result = NoResult
    /\ dec_result = NoText

\* train(text, vocab_size, allowed_special), for the inputs of the model
train ==
    \E text \in TrainTexts, size \in VocabSizes, specials \in SpecialSets :
      \E char_order \in CharOrders(UniqueChars(ReplaceSpaces(text))),
         special_order \in Perms(specials) :
           TrainSeed(text, size, specials, char_order, special_order)

load_vocab_and_merges_from_openai ==
    \E loaded_vocab \in OpenAIVocabs :
        \/ \E contents \in RankFiles : LoadOpenAIOk(loaded_vocab, contents)
        \/ LoadOpenAIErr(loaded_vocab)

\* train on a tokenizer no call was made on
TrainFresh == calls = <<>> /\ ~saved.written /\ ~first_run.done /\ train

\* Any sequence of train, save, load and import calls on a tokenizer.
Next ==
    \/ train
    \/ TrainMerge
    \/ TrainReturn
    \/ save_vocab_and_merges
    \/ SavePanic
    \/ load_vocab_and_merges
    \/ load_vocab_and_merges_from_openai
Spec == Init /\ [][Next]_vars

\* As main does: train on a fresh tokenizer, save, load into a fresh tokenizer.
NextPersist ==
    \/ TrainFresh
    \/ TrainMerge
    \/ TrainReturn
    \/ save_vocab_and_merges
    \/ NewCall
    \/ load_vocab_and_merges
SpecPersist == Init /\ [][NextPersist]_vars

\* One train on a fresh tokenizer, then encode and decode.
EncodeAny == \E text \in EncodeTexts, allowed_special \in AllowedSpecials : EncodeCall(text, allowed_special)
NextTrain ==
    \/ TrainFresh
    \/ TrainMerge
    \/ TrainReturn
    \/ EncodeAny
    \/ DecodeCall
SpecTrain == Init /\ [][NextTrain]_vars


\* An import into a fresh tokenizer, then encode and decode.
LoadOpenAIFresh == calls = <<>> /\ load_vocab_and_merges_from_openai
NextRank ==
    \/ LoadOpenAIFresh
    \/ EncodeAny
    \/ DecodeCall
SpecRank == Init /\ [][NextRank]_vars

\* The outcome of the train is kept and the program takes a tokenizer made by new() ...
KeepRun ==
    /\ pc = "idle"
    /\ calls = <<"train">>
    /\ ~first_run.done
    /\ first_run' = [done |-> TRUE, vocab |-> vocab, inverse_vocab |-> inverse_vocab,
                     learned |-> learned]
    /\ vocab' = New.vocab
    /\ inverse_vocab' = New.inverse_vocab
    /\ bpe_merges' = New.bpe_merges
    /\ bpe_ranks' = New.bpe_ranks
    /\ calls' = <<>>
    /\ UNCHANGED <<special_tokens, trainer, files, rank_text, coder>>
\* ... and trains it with the same text, the same vocab_size and the same special tokens.
TrainAgain ==
    /\ first_run.done
    /\ calls = <<>>
    /\ \E char_order \in CharOrders(UniqueChars(ReplaceSpaces(train_text))),
          special_order \in Perms(special_tokens) :
            TrainSeed(train_text, vocab_size, special_tokens, char_order, special_order)
NextTwice ==
    \/ TrainFresh
    \/ TrainMerge
    \/ TrainReturn
    \/ KeepRun
    \/ TrainAgain
SpecTwice == Init /\ [][NextTwice]_vars

----------------------------------------------------------------------------
(* The claims. *)

Max(a, b) == IF a >= b THEN a ELSE b
Count(ids, id) == Cardinality({i \in DOMAIN ids : ids[i] = id})
\* the occurrences of the literal p in text from position i on, counted left to
\* right without overlap
RECURSIVE Occurrences(_, _, _)
Occurrences(text, p, i) ==
    IF i + Len(p) - 1 > Len(text) THEN 0
    ELSE IF OccursAt(text, p, i) THEN 1 + Occurrences(text, p, i + Len(p))
    ELSE Occurrences(text, p, i + 1)

\* train has returned on a tokenizer that was fresh
TrainedFresh == pc = "idle" /\ calls = <<"train">>
\* encode was called with allowed_special absent or empty
PlainEncode == enc_result # NoResult /\ (~enc_allowed.some \/ enc_allowed.alts = <<>>)
\* encode was called with a non-empty allowed_special
SpecialEncode == enc_result # NoResult /\ enc_allowed.some /\ enc_allowed.alts # <<>>

\* the text is words over the characters chars, one separator between two words
Separated(text, chars, separators) ==
    /\ \A i \in DOMAIN text : text[i] \in chars \cup separators
    /\ text # <<>> => text[1] \notin separators /\ text[Len(text)] \notin separators
    /\ \A i \in 1..(Len(text) - 1) : ~(text[i] \in separators /\ text[i + 1] \in separators)
VocabChars == {c \in Ascii \cup {SpaceMarker} : <<c>> \in DOMAIN inverse_vocab}

C3_GrowthBound ==
    TrainedFresh
    => /\ Cardinality(DOMAIN vocab) <= vocab_size
       /\ vocab_size < seed_size => learned = <<>>

\* C3, amended: the vocabulary has at most max(vocab_size, seed size) entries, and a
\* vocab_size not above the seed size means no merge and the seed vocabulary.
C3_GrowthBoundSeed ==
    TrainedFresh
    => /\ Cardinality(DOMAIN vocab) <= Max(vocab_size, seed_size)
       /\ vocab_size <= seed_size
            => learned = <<>> /\ DOMAIN bpe_merges = {} /\ Cardinality(DOMAIN vocab) = seed_size

\* C3, witness: train returned with a vocab_size below the seed size, no merge made.
C3_Witness ==
    /\ TrainedFresh
    /\ vocab_size < seed_size
    /\ Cardinality(DOMAIN vocab) > vocab_size
    /\ learned = <<>>

\* C5, as claimed: in a successful encode, whatever allowed_special is, every
\* occurrence of a registered special token is one ID, the token's own.
C5_Atomic ==
    (TrainedFresh /\ enc_result.ok)
    => \A s \in special_tokens \cap DOMAIN inverse_vocab :
          Count(enc_result.ids, inverse_vocab[s]) >= Occurrences(enc_text, s, 1)

\* C5, amended: in a successful encode with a non-empty allowed_special, every
\* occurrence of an allowed special token is one ID, the token's own.
C5_AtomicAllowed ==
    (TrainedFresh /\ enc_result.ok /\ SpecialEncode)
    => \A s \in Range(enc_allowed.alts) :
          Occurrences(enc_text, s, 1) > 0
          => /\ s \in DOMAIN inverse_vocab
             /\ Count(enc_result.ids, inverse_vocab[s]) >= Occurrences(enc_text, s, 1)

\* C5, witness: an allowed special token glued to a word was encoded as its own ID.
C5_Witness ==
    /\ TrainedFresh /\ enc_result.ok /\ SpecialEncode
    /\ Sep \in Range(enc_allowed.alts)
    /\ enc_text = <<"a", "<", "|", ">">>
    /\ Count(enc_result.ids, inverse_vocab[Sep]) = 1

\* C6, as claimed: encode with a non-empty allowed_special fails when the text holds
\* a special token that is not in the set, whatever the token's spelling.
C6_Disallowed ==
    (TrainedFresh /\ SpecialEncode
        /\ \E s \in special_tokens :
              s \notin Range(enc_allowed.alts) /\ Contains(enc_text, s))
    => ~enc_result.ok

\* C6, amended: encode with a non-empty allowed_special fails when the text holds a
\* vocabulary entry spelled <|...|> that is not in the set.
C6_DisallowedBracketed ==
    (TrainedFresh /\ SpecialEncode
        /\ \E s \in DOMAIN inverse_vocab :
              /\ Len(s) >= 2 /\ SubSeq(s, 1, 2) = <<"<", "|">>
              /\ SubSeq(s, Len(s) - 1, Len(s)) = <<"|", ">">>
              /\ s \notin Range(enc_allowed.alts)
              /\ Contains(enc_text, s))
    => ~enc_result.ok /\ enc_result.ids = <<>>

\* C6, witness: encode refused a text for the <|...|> token that was not allowed.
C6_Witness ==
    /\ TrainedFresh /\ SpecialEncode
    /\ Sep \in special_tokens
    /\ Sep \notin Range(enc_allowed.alts)
    /\ Contains(enc_text, Sep)
    /\ enc_result = Err("Disallowed special tokens encountered")

\* C9, as claimed: after train the rank list has one entry for each merge learned,
\* and the rank of an entry is the position at which its merge was learned.
C9_RanksFollowLearning ==
    TrainedFresh
    => /\ Cardinality(DOMAIN bpe_ranks) = Len(learned)
       /\ \A i \in DOMAIN learned :
             learned[i] \in DOMAIN bpe_ranks /\ bpe_ranks[learned[i]] = i - 1

\* C2, as claimed: after any calls of train and the loads, vocab and inverse_vocab
\* are inverses of each other.
C2_Bijection ==
    pc = "idle"
    => /\ DOMAIN inverse_vocab = {vocab[k] : k \in DOMAIN vocab}
       /\ \A k \in DOMAIN vocab : inverse_vocab[vocab[k]] = k
       /\ \A str \in DOMAIN inverse_vocab :
             inverse_vocab[str] \in DOMAIN vocab /\ vocab[inverse_vocab[str]] = str

\* C10, as claimed: after any calls of train and the loads, the id-pair table and
\* the rank list are not both populated.
C10_OneRepresentation ==
    pc = "idle" => (DOMAIN bpe_merges = {} \/ DOMAIN bpe_ranks = {})

\* C7, as claimed: a fresh tokenizer loaded from the files a trained tokenizer saved
\* encodes every text as the tokenizer that saved them does.
C7_LoadedEncodesAlike ==
    (pc = "idle" /\ calls = <<"load">> /\ saved.calls = <<"train">>)
    => \A text \in EncodeTexts, allowed_special \in AllowedSpecials :
          encode(Self, text, allowed_special) = encode(saved.t, text, allowed_special)

\* C4, as claimed: a second train of a fresh tokenizer with the same text, vocab_size
\* and special tokens ends with the same vocabulary and the same merges in the same order.
C4_Deterministic ==
    (TrainedFresh /\ first_run.done)
    => /\ vocab = first_run.vocab
       /\ inverse_vocab = first_run.inverse_vocab
       /\ learned = first_run.learned

\* the pair on the first line after the header of the rank file, <<>> when that
\* line is not two fields
FirstPair ==
    LET lines == Lines(rank_text)
    IN  IF Len(lines) >= 2 /\ Len(SplitWhitespace(lines[2])) = 2
        THEN SplitWhitespace(lines[2]) ELSE <<>>
\* what C8 says of a segment: rounds on the lowest-ranked adjacent pair, every
\* occurrence of it merged left to right, until no pair is ranked or one symbol is left
RECURSIVE LowestRankRounds(_)
LowestRankRounds(symbols) ==
    LET ranked == {<<symbols[i], symbols[i + 1]>> : i \in 1..(Len(symbols) - 1)} \cap DOMAIN bpe_ranks
    IN  IF Len(symbols) <= 1 \/ ranked = {} THEN symbols
        ELSE LET best == CHOOSE p \in ranked : \A q \in ranked : bpe_ranks[p] <= bpe_ranks[q]
             IN  LowestRankRounds(MergeSymbols(symbols, best[1], best[2]))

\* C8, as claimed: after the import the pair of the first line after the header has
\* rank 0, and a word that is no vocabulary entry is encoded by lowest-rank rounds.
C8_RankZeroFirst ==
    (pc = "idle" /\ calls = <<"load_openai">>)
    => /\ (FirstPair # <<>> /\ FirstPair[1] \in DOMAIN inverse_vocab
                            /\ FirstPair[2] \in DOMAIN inverse_vocab)
            => FirstPair \in DOMAIN bpe_ranks /\ bpe_ranks[FirstPair] = 0
       /\ (PlainEncode /\ enc_result.ok /\ DOMAIN bpe_ranks # {}
             /\ enc_text # <<>> /\ Separated(enc_text, {"a", "b"}, {})
             /\ enc_text \notin DOMAIN inverse_vocab)
            => enc_result.ids
                 = [i \in DOMAIN LowestRankRounds([j \in DOMAIN enc_text |-> <<enc_text[j]>>])
                      |-> inverse_vocab[LowestRankRounds([j \in DOMAIN enc_text |-> <<enc_text[j]>>])[i]]]

====
